---------------------------- MODULE Spec2Model ----------------------------
(***************************************************************************)
(* A model of claude-skill-manager: the source identifier (models.py),    *)
(* the remote fetcher's retry loop and content validation (fetcher.py),   *)
(* the configuration store (config.py), the installer / metadata store    *)
(* (installer.py) and the commands of the command line (cli.py).          *)
(*                                                                         *)
(* Strings are sequences of one-character strings, so that split, strip   *)
(* and endswith are computed as the code computes them.                   *)
(***************************************************************************)
EXTENDS Naturals, Sequences, FiniteSets, TLC

VARIABLES
    \* ---- SkillFetcher.fetch (fetcher.py) ----
    fpc,          \* position of fetch: "idle", "loop" (inside the for loop), "done"
    fname,        \* argument skill_name
    fsource,      \* argument source (a SkillSource)
    fvalidate,    \* argument validate
    attempt,      \* the loop variable of `for attempt in range(MAX_RETRIES)`
    last_error,   \* the local last_error
    gets,         \* the responses of the GETs issued so far, in order
    sleeps,       \* the delays passed to time.sleep so far, in order
    fresult,      \* what fetch returned or raised
    \* ---- SkillSource.from_string (models.py) ----
    pinput,       \* argument source
    pbranch,      \* argument branch
    presult,      \* what from_string returned or raised
    \* ---- ConfigManager (config.py) ----
    cfile,        \* the configuration file: whether it exists, and its data
    cop,          \* the last ConfigManager call and its arguments
    cres,         \* what that call returned or raised
    cpre,         \* the configuration file before that call
    \* ---- SkillInstaller (installer.py) ----
    files,        \* the skill files of the skills directory: filename -> content
    meta,         \* the metadata index of .metadata.yaml: filename -> record
    now,          \* the clock datetime.now() reads
    iop,          \* the last SkillInstaller call and its arguments
    ires,         \* what that call returned or raised
    ipre,         \* files and meta before that call
    iprev,        \* the call before it: its arguments, its result, the state before it
    \* ---- SkillFetcher objects (fetcher.py) ----
    fetchers,     \* how many SkillFetcher objects were constructed and not closed
    \* ---- the commands of the command line (cli.py) ----
    cmd,          \* the command that runs or ran last: "init", "fetch", "update", ...
    exit,         \* "idle" before any command, "running", then "ok" or "failed" (Exit 1)
    selected,     \* update: skills_to_update
    todo,         \* update: the skill files the loop has not come to
    pass,         \* update: the last pass of the loop: the skill file, what was
                  \* fetched, how the pass ended, the disk and the counts before it
    updated_count,    \* update: the local updated_count
    skipped_count,    \* update: the local skipped_count
    wire,         \* the fetches of that command: the source of each, and whether
                  \* the allow-list held it then
    \* ---- processes that run add_source or install statement by statement ----
    proc,         \* for each process: the call it runs, where it is in it, and
                  \* what it has read (its local config / metadata objects)
    clast,        \* the process that saved the configuration file last (0: none)
    mlast,        \* the process that saved the metadata index last (0: none)
    interrupted   \* whether a process was killed inside install

fetchVars == <<fpc, fname, fsource, fvalidate, attempt, last_error, gets, sleeps, fresult>>
parseVars == <<pinput, pbranch, presult>>
configVars == <<cfile, cop, cres, cpre>>
installVars == <<files, meta, now, iop, ires, ipre, iprev>>
cliVars == <<cmd, exit, selected, todo, pass, updated_count, skipped_count, wire>>
procVars == <<proc, clast, mlast, interrupted>>
vars == <<fetchVars, parseVars, configVars, installVars, fetchers, cliVars, procVars>>

-----------------------------------------------------------------------------
(* Bounds of the model                                                     *)

\* longest explicit prefix of a response body (the rest is a run of one character)
MaxHead == 1
\* longest source string handed to from_string
MaxLen == 4
\* the clock stops here: no SkillInstaller call is made at this time or later
MaxClock == 3

-----------------------------------------------------------------------------
(* Strings                                                                 *)

\* str.split(sep) for a one-character separator: the parts between separators
RECURSIVE Split(_, _)
Split(s, sep) ==
    IF \A i \in 1..Len(s) : s[i] # sep
    THEN <<s>>
    ELSE LET i == CHOOSE k \in 1..Len(s) :
                      s[k] = sep /\ \A j \in 1..(k - 1) : s[j] # sep
         IN  <<SubSeq(s, 1, i - 1)>> \o Split(SubSeq(s, i + 1, Len(s)), sep)

\* str.endswith(suffix)
EndsWith(s, suffix) ==
    /\ Len(s) >= Len(suffix)
    /\ SubSeq(s, Len(s) - Len(suffix) + 1, Len(s)) = suffix

\* the characters str.strip() removes
IsSpace(ch) == ch \in {" ", "\n", "\t"}

\* `not s.strip()`
StripIsEmpty(s) == \A i \in 1..Len(s) : IsSpace(s[i])

\* all strings over an alphabet up to a length
RECURSIVE StringsUpTo(_, _)
StringsUpTo(alphabet, n) ==
    IF n = 0 THEN {<< >>}
    ELSE LET shorter == StringsUpTo(alphabet, n - 1)
         IN  shorter \cup {Append(s, ch) : s \in shorter, ch \in alphabet}

DotMd == <<".", "m", "d">>

-----------------------------------------------------------------------------
(* models.py: SkillSource                                                  *)

NoSource == [owner |-> << >>, repo |-> << >>, branch |-> << >>]

\* SkillSource.full_name
full_name(source) == source.owner \o <<"/">> \o source.repo

\* SkillSource.from_string: ValueError unless split("/") gives two parts
from_string(source, branch) ==
    LET parts == Split(source, "/")
    IN  IF Len(parts) # 2
        THEN [ok |-> FALSE, error |-> "FormatError", value |-> NoSource]
        ELSE [ok |-> TRUE, error |-> "none",
              value |-> [owner |-> parts[1], repo |-> parts[2], branch |-> branch]]

\* from_string has not been called
NotParsed == [ok |-> FALSE, error |-> "none", value |-> NoSource]

\* Skill.filename
filename(name) == IF EndsWith(name, DotMd) THEN name ELSE name \o DotMd

-----------------------------------------------------------------------------
(* fetcher.py: responses, bodies and errors                                *)

MAX_FILE_SIZE == 1024 * 1024
\* mutant: one attempt too many
MAX_RETRIES_OneMore == 4 + 1
MAX_RETRIES == 4
INITIAL_RETRY_DELAY == 2

\* A response body is the text head followed by pad copies of the character
\* padc; fm is what the front-matter library makes of the text:
\*   "none"      no front-matter block, the metadata is empty
\*   "mapping"   a block that parses to a mapping of strings
\*   "nonstring" a block that parses to a mapping with a value that is no string
\*   "malformed" a block whose parse raises
NoBody == [head |-> << >>, pad |-> 0, padc |-> "x", fm |-> "none"]

\* len(content)
ContentLen(content) == Len(content.head) + content.pad

\* `not content.strip()`
ContentBlank(content) ==
    /\ StripIsEmpty(content.head)
    /\ content.pad = 0 \/ IsSpace(content.padc)

\* any(line.strip() for line in content.split("\n")): the run of padc extends
\* the last line
AnyNonBlankLine(content) ==
    LET lines == Split(content.head, "\n")
    IN  \/ \E i \in 1..Len(lines) : ~StripIsEmpty(lines[i])
        \/ content.pad > 0 /\ ~IsSpace(content.padc)

\* frontmatter.loads(content): the outcome the library gives for this text
FrontmatterLoads(content) == content.fm

BodyChars == {" ", "\n", "x"}
PadSizes == {0, MAX_FILE_SIZE - 1, MAX_FILE_SIZE, MAX_FILE_SIZE + 1}

\* the bodies a server may send; a front-matter block is text that is not blank
Bodies ==
    {b \in [head : StringsUpTo(BodyChars, MaxHead), pad : PadSizes,
            padc : {"x", " "}, fm : {"none", "mapping", "nonstring", "malformed"}] :
        /\ b.pad = 0 => b.padc = "x"
        /\ b.fm # "none" => ~ContentBlank(b)}

\* what client.get gives: a response with a status code, or a transport-level
\* error (httpx.RequestError)
HttpResponse(status, body) ==
    [kind |-> "http", status |-> status, body |-> body, cause |-> "none"]
TransportError(cause) ==
    [kind |-> "transport", status |-> 0, body |-> NoBody, cause |-> cause]

StatusCodes == {200, 204, 400, 403, 404, 499, 500, 503}
TransportCauses == {"ConnectError", "TimeoutException"}

Responses ==
    {HttpResponse(200, b) : b \in Bodies}
        \cup {HttpResponse(s, NoBody) : s \in StatusCodes \ {200}}
        \cup {TransportError(c) : c \in TransportCauses}

\* errors: the FetchErrors of fetcher.py by their cause, and the two exceptions
\* of the libraries that fetch lets through
NoError == [kind |-> "none", status |-> 0, cause |-> "none"]
Err(kind) == [kind |-> kind, status |-> 0, cause |-> "none"]
ServerError(status) == [kind |-> "ServerError", status |-> status, cause |-> "none"]
UnexpectedStatus(status) == [kind |-> "UnexpectedStatus", status |-> status, cause |-> "none"]
NetworkError(cause) == [kind |-> "NetworkError", status |-> 0, cause |-> cause]

FetchErrorKinds ==
    {"NotFound", "Forbidden", "UnexpectedStatus", "TooLarge", "EmptyContent",
     "InvalidContent", "ServerError", "NetworkError", "Exhausted"}
IsFetchError(e) == e.kind \in FetchErrorKinds

NoSkill == [name |-> << >>, content |-> NoBody, source |-> << >>, branch |-> << >>,
            metadata |-> "none"]

\* mutant: the size check rejects a body of exactly MAX_FILE_SIZE characters
validate_content_GeqSize(content) ==
    IF ContentLen(content) >= MAX_FILE_SIZE THEN Err("TooLarge")
    ELSE IF ContentBlank(content) THEN Err("EmptyContent")
    ELSE IF FrontmatterLoads(content) = "malformed" /\ ~AnyNonBlankLine(content)
         THEN Err("InvalidContent")
         ELSE NoError

\* SkillFetcher._validate_content: the error it raises, or NoError
validate_content(content) ==
    IF ContentLen(content) > MAX_FILE_SIZE THEN Err("TooLarge")
    ELSE IF ContentBlank(content) THEN Err("EmptyContent")
    ELSE IF FrontmatterLoads(content) = "malformed" /\ ~AnyNonBlankLine(content)
         THEN Err("InvalidContent")
         ELSE NoError

\* mutant: the branch is left at the Skill model's default "main"
MakeSkill_DefaultBranch(name, content, source) ==
    [name |-> name, content |-> content, source |-> full_name(source),
     branch |-> <<"m", "a", "i", "n">>,
     metadata |-> IF FrontmatterLoads(content) = "mapping" THEN "mapping" ELSE "none"]

\* the Skill(...) fetch constructs from a 200 response
MakeSkill(name, content, source) ==
    [name |-> name, content |-> content, source |-> full_name(source),
     branch |-> source.branch,
     metadata |-> IF FrontmatterLoads(content) = "mapping" THEN "mapping" ELSE "none"]

Return(skill) == [kind |-> "return", skill |-> skill, error |-> NoError]
Raise(error) == [kind |-> "raise", skill |-> NoSkill, error |-> error]
Continue(error) == [kind |-> "continue", skill |-> NoSkill, error |-> error]

\* the status_code == 200 branch
OnOk(content, validate, name, source) ==
    LET invalid == IF validate THEN validate_content(content) ELSE NoError
    IN  IF invalid # NoError THEN Raise(invalid)
        ELSE IF FrontmatterLoads(content) = "malformed" THEN Raise(Err("YAMLError"))
        ELSE IF FrontmatterLoads(content) = "nonstring" THEN Raise(Err("ValidationError"))
        ELSE Return(MakeSkill(name, content, source))

\* mutant: client errors are retried like server errors
IsServerError_From400(status) == status >= 400

\* `response.status_code >= 500`
IsServerError(status) == status >= 500

\* the body of the try statement, for one response
OnResponse(resp, validate, name, source) ==
    IF resp.kind = "transport" THEN Continue(NetworkError(resp.cause))
    ELSE IF resp.status = 200 THEN OnOk(resp.body, validate, name, source)
    ELSE IF resp.status = 404 THEN Raise(Err("NotFound"))
    ELSE IF resp.status = 403 THEN Raise(Err("Forbidden"))
    ELSE IF IsServerError(resp.status) THEN Continue(ServerError(resp.status))
    ELSE Raise(UnexpectedStatus(resp.status))

\* mutant: the last attempt is followed by a sleep as well
SleepsAfter_LastToo(a) == a < MAX_RETRIES

\* `if attempt < self.MAX_RETRIES - 1`
SleepsAfter(a) == a + 1 < MAX_RETRIES

\* INITIAL_RETRY_DELAY * (2**attempt)
RetryDelay(a) == INITIAL_RETRY_DELAY * (2 ^ a)

\* mutant: the generic error is raised whatever was recorded
AfterLoop_Generic(last) == Err("Exhausted")

\* after the loop: raise last_error, or the generic error when none was recorded
AfterLoop(last) == IF last # NoError THEN last ELSE Err("Exhausted")

NoResult == [kind |-> "none", skill |-> NoSkill, error |-> NoError]
Returned(skill) == [kind |-> "skill", skill |-> skill, error |-> NoError]
Raised(error) == [kind |-> "error", skill |-> NoSkill, error |-> error]

-----------------------------------------------------------------------------
(* The states before any call                                              *)

Main == <<"m", "a", "i", "n">>

FetchIdle ==
    /\ fpc = "idle"
    /\ fname = << >>
    /\ fsource = NoSource
    /\ fvalidate = TRUE
    /\ attempt = 0
    /\ last_error = NoError
    /\ gets = << >>
    /\ sleeps = << >>
    /\ fresult = NoResult

ParseIdle ==
    /\ pinput = << >>
    /\ pbranch = Main
    /\ presult = NotParsed

-----------------------------------------------------------------------------
(* models.py: SkillConfig, and config.py: ConfigManager                    *)

DEFAULT_SOURCE ==
    <<"m", "o", "j", "z", "i", "s", "/",
      "m", "a", "r", "i", "m", "o", "-", "t", "e", "m", "p", "l", "a", "t", "e">>

\* an Optional[str] argument
None == [some |-> FALSE, v |-> << >>]
Some(s) == [some |-> TRUE, v |-> s]

Range(seq) == {seq[i] : i \in 1..Len(seq)}

\* dict[key] = value, and the dict without a key
Put(f, key, value) == [k \in DOMAIN f \cup {key} |-> IF k = key THEN value ELSE f[k]]
Del(f, key) == [k \in DOMAIN f \ {key} |-> f[k]]

\* list.remove(x): the list without the first occurrence of x
RemoveFirst(seq, x) ==
    LET i == CHOOSE k \in 1..Len(seq) : seq[k] = x /\ \A j \in 1..(k - 1) : seq[j] # x
    IN  SubSeq(seq, 1, i - 1) \o SubSeq(seq, i + 1, Len(seq))

\* the check of validate_sources and validate_default_source for one string
ValidSourceFormat(s) == Len(Split(s, "/")) = 2

NoConfig == [default_source |-> << >>, allowed_sources |-> << >>, aliases |-> << >>]

Ok(config) == [ok |-> TRUE, error |-> "none", config |-> config]
Fail(error) == [ok |-> FALSE, error |-> error, config |-> NoConfig]

\* SkillConfig(...): the field validators run when the object is constructed
SkillConfig(default_source, allowed_sources, aliases) ==
    IF /\ ValidSourceFormat(default_source)
       /\ \A i \in 1..Len(allowed_sources) : ValidSourceFormat(allowed_sources[i])
    THEN Ok([default_source |-> default_source, allowed_sources |-> allowed_sources,
             aliases |-> aliases])
    ELSE Fail("ValidationError")

NoFile == [exists |-> FALSE, data |-> NoConfig]

\* ConfigManager.load
load(file) ==
    IF ~file.exists THEN Fail("NotFound")
    ELSE LET c == SkillConfig(file.data.default_source, file.data.allowed_sources,
                              file.data.aliases)
         IN  IF c.ok THEN c ELSE Fail("InvalidFormat")

\* ConfigManager.save: the file after the dump of config
save(config) == [exists |-> TRUE, data |-> config]

\* the file a call leaves behind, and what it returns or raises
Outcome(file, res) == [file |-> file, res |-> res]

\* mutant: init does not look whether the file exists
init_NoExistsCheck(file, default_source) ==
    LET source == IF default_source.some /\ default_source.v # << >>
                  THEN default_source.v ELSE DEFAULT_SOURCE
        c == SkillConfig(source, <<source>>, << >>)
    IN  IF c.ok THEN Outcome(save(c.config), c) ELSE Outcome(file, c)

\* ConfigManager.init
init(file, default_source) ==
    IF file.exists THEN Outcome(file, Fail("AlreadyExists"))
    ELSE LET source == IF default_source.some /\ default_source.v # << >>
                       THEN default_source.v ELSE DEFAULT_SOURCE
             c == SkillConfig(source, <<source>>, << >>)
         IN  IF c.ok THEN Outcome(save(c.config), c) ELSE Outcome(file, c)

\* ConfigManager.add_source
add_source(file, source) ==
    LET l == load(file)
    IN  IF ~l.ok THEN Outcome(file, l)
        ELSE IF source \notin Range(l.config.allowed_sources)
        THEN LET c == [l.config EXCEPT !.allowed_sources = Append(@, source)]
             IN  Outcome(save(c), Ok(c))
        ELSE Outcome(file, l)

\* mutant: the default source is removed like any other
remove_source_AnySource(file, source) ==
    LET l == load(file)
    IN  IF ~l.ok THEN Outcome(file, l)
        ELSE IF source \in Range(l.config.allowed_sources)
        THEN LET c == [l.config EXCEPT !.allowed_sources = RemoveFirst(@, source)]
             IN  Outcome(save(c), Ok(c))
        ELSE Outcome(file, l)

\* ConfigManager.remove_source
remove_source(file, source) ==
    LET l == load(file)
    IN  IF ~l.ok THEN Outcome(file, l)
        ELSE IF source = l.config.default_source
        THEN Outcome(file, Fail("CannotRemoveDefault"))
        ELSE IF source \in Range(l.config.allowed_sources)
        THEN LET c == [l.config EXCEPT !.allowed_sources = RemoveFirst(@, source)]
             IN  Outcome(save(c), Ok(c))
        ELSE Outcome(file, l)

\* ConfigManager.add_alias
add_alias(file, alias, skill_name) ==
    LET l == load(file)
    IN  IF ~l.ok THEN Outcome(file, l)
        ELSE LET c == [l.config EXCEPT !.aliases = Put(@, alias, skill_name)]
             IN  Outcome(save(c), Ok(c))

\* the arguments the calls are given
SourceArgs == {<<"a", "/", "b">>, <<"c", "/", "d">>, <<"a", "b">>, <<"/", "b">>}
InitArgs == {None, Some(<< >>)} \cup {Some(s) : s \in SourceArgs}
AliasArgs == {<<"x">>}
SkillNameArgs == {<<"s">>, <<"t">>}

Call(op, opt, arg, arg2) == [op |-> op, opt |-> opt, arg |-> arg, arg2 |-> arg2]

ConfigIdle ==
    /\ cfile = NoFile
    /\ cop = Call("none", FALSE, << >>, << >>)
    /\ cres = Fail("none")
    /\ cpre = NoFile

\* a call is made: its outcome becomes the file and the result
ConfigCall(call, out) ==
    /\ cpre' = cfile
    /\ cop' = call
    /\ cfile' = out.file
    /\ cres' = out.res
    /\ UNCHANGED <<fetchVars, parseVars, installVars, fetchers, cliVars, procVars>>

CallInit(default_source) ==
    ConfigCall(Call("init", default_source.some, default_source.v, << >>),
               init(cfile, default_source))

CallLoad == ConfigCall(Call("load", FALSE, << >>, << >>), Outcome(cfile, load(cfile)))

CallAddSource(source) ==
    ConfigCall(Call("add_source", TRUE, source, << >>), add_source(cfile, source))

CallRemoveSource(source) ==
    ConfigCall(Call("remove_source", TRUE, source, << >>), remove_source(cfile, source))

CallAddAlias(alias, skill_name) ==
    ConfigCall(Call("add_alias", TRUE, alias, skill_name),
               add_alias(cfile, alias, skill_name))
-----------------------------------------------------------------------------
(* installer.py: SkillInstaller                                            *)

\* SkillFetcher.compute_checksum: the SHA-256 digest of the content, taken to
\* be free of collisions
compute_checksum(content) == <<"sha256", content>>

\* the skills directory and its metadata sidecar
Disk(f, m) == [files |-> f, meta |-> m]

\* the disk a call leaves behind, and what it returns ("true", "false") or
\* raises ("AlreadyExists")
Installed(disk, ret) == [disk |-> disk, ret |-> ret]

\* mutant: the record of an installed skill keeps the checksum it had
WriteSkill_StaleChecksum(disk, skill, time) ==
    Disk(Put(disk.files, filename(skill.name), skill.content),
         Put(disk.meta, filename(skill.name),
             [source |-> skill.source, fetched_at |-> time, branch |-> skill.branch,
              checksum |-> IF filename(skill.name) \in DOMAIN disk.meta
                           THEN disk.meta[filename(skill.name)].checksum
                           ELSE compute_checksum(skill.content)]))

\* mutant: the index is written anew, holding the one record
WriteSkill_FreshIndex(disk, skill, time) ==
    Disk(Put(disk.files, filename(skill.name), skill.content),
         Put(<< >>, filename(skill.name),
             [source |-> skill.source, fetched_at |-> time, branch |-> skill.branch,
              checksum |-> compute_checksum(skill.content)]))

\* the write of the skill file and the upsert of its metadata record
WriteSkill(disk, skill, time) ==
    Disk(Put(disk.files, filename(skill.name), skill.content),
         Put(disk.meta, filename(skill.name),
             [source |-> skill.source, fetched_at |-> time, branch |-> skill.branch,
              checksum |-> compute_checksum(skill.content)]))

\* mutant: SKIP does not return before the write
install_SkipWrites(disk, skill, conflict_resolution, time) ==
    IF filename(skill.name) \in DOMAIN disk.files /\ conflict_resolution = "prompt"
    THEN Installed(disk, "AlreadyExists")
    ELSE Installed(WriteSkill(disk, skill, time), "true")

\* mutant: PROMPT writes over the file it finds
install_PromptWrites(disk, skill, conflict_resolution, time) ==
    IF filename(skill.name) \in DOMAIN disk.files /\ conflict_resolution = "skip"
    THEN Installed(disk, "false")
    ELSE Installed(WriteSkill(disk, skill, time), "true")

\* SkillInstaller.install
install(disk, skill, conflict_resolution, time) ==
    IF filename(skill.name) \in DOMAIN disk.files /\ conflict_resolution = "skip"
    THEN Installed(disk, "false")
    ELSE IF filename(skill.name) \in DOMAIN disk.files /\ conflict_resolution = "prompt"
    THEN Installed(disk, "AlreadyExists")
    ELSE Installed(WriteSkill(disk, skill, time), "true")

\* mutant: the name is looked up as given
remove_NoSuffix(disk, skill_name) ==
    LET name == skill_name
    IN  IF name \notin DOMAIN disk.files THEN Installed(disk, "false")
        ELSE Installed(Disk(Del(disk.files, name),
                            IF name \in DOMAIN disk.meta THEN Del(disk.meta, name)
                            ELSE disk.meta),
                       "true")

\* `fetcher.compute_checksum(...) if fetcher else SkillFetcher().compute_checksum(...)`:
\* without a fetcher, an install that comes to the checksum constructs a
\* SkillFetcher, whose httpx.Client nothing closes
ConstructsFetcher(disk, skill, conflict_resolution, fetcher) ==
    /\ fetcher = "None"
    /\ ~(filename(skill.name) \in DOMAIN disk.files
            /\ conflict_resolution \in {"skip", "prompt"})

\* SkillInstaller.remove
remove(disk, skill_name) ==
    LET name == IF EndsWith(skill_name, DotMd) THEN skill_name ELSE skill_name \o DotMd
    IN  IF name \notin DOMAIN disk.files THEN Installed(disk, "false")
        ELSE Installed(Disk(Del(disk.files, name),
                            IF name \in DOMAIN disk.meta THEN Del(disk.meta, name)
                            ELSE disk.meta),
                       "true")

\* what get_skill_info returns: None, or the record
NoInfo == [found |-> FALSE]
Info(record) == [found |-> TRUE, record |-> record]

\* SkillInstaller.get_skill_info
get_skill_info(disk, skill_name) ==
    LET name == IF EndsWith(skill_name, DotMd) THEN skill_name ELSE skill_name \o DotMd
    IN  IF name \in DOMAIN disk.meta THEN Info(disk.meta[name]) ELSE NoInfo

\* SkillInstaller.is_installed
is_installed(disk, skill_name) ==
    LET name == IF EndsWith(skill_name, DotMd) THEN skill_name ELSE skill_name \o DotMd
    IN  name \in DOMAIN disk.files

\* mutant: a skill without a record needs an update
needs_update_NoRecord(disk, skill_name, new_checksum) ==
    LET info == get_skill_info(disk, skill_name)
    IN  IF ~info.found THEN TRUE ELSE info.record.checksum # new_checksum

\* SkillInstaller.needs_update
needs_update(disk, skill_name, new_checksum) ==
    LET info == get_skill_info(disk, skill_name)
    IN  IF ~info.found THEN FALSE ELSE info.record.checksum # new_checksum

\* the arguments the calls are given
InstallNames == {<<"a">>, <<"b">> \o DotMd}
RemoveNames == {<<"a">>, <<"a">> \o DotMd, <<"b">>}
InstallContents ==
    {[head |-> <<"x">>, pad |-> 0, padc |-> "x", fm |-> "none"],
     [head |-> <<"x", "\n">>, pad |-> 0, padc |-> "x", fm |-> "none"]}
Origins ==
    {[source |-> <<"a", "/", "b">>, branch |-> Main],
     [source |-> <<"c", "/", "d">>, branch |-> <<"d">>]}
Skills ==
    {[name |-> n, content |-> c, source |-> o.source, branch |-> o.branch,
      metadata |-> "none"] : n \in InstallNames, c \in InstallContents, o \in Origins}
ConflictResolutions == {"skip", "overwrite", "prompt"}
FetcherArgs == {"None", "passed"}
QueryNames == {<<"a">>, <<"a">> \o DotMd, <<"b">>}
ChecksumArgs ==
    {compute_checksum(c) :
        c \in InstallContents \cup {[head |-> <<"y">>, pad |-> 0, padc |-> "x", fm |-> "none"]}}

NoChecksum == << >>

InstallerCall(op, skill, policy, name) ==
    [op |-> op, skill |-> skill, policy |-> policy, name |-> name,
     checksum |-> NoChecksum]
NoCall == InstallerCall("none", NoSkill, "none", << >>)

InstallIdle ==
    /\ files = << >>
    /\ meta = << >>
    /\ now = 0
    /\ iop = NoCall
    /\ ires = "none"
    /\ ipre = Disk(<< >>, << >>)
    /\ iprev = [call |-> NoCall, ret |-> "none", pre |-> Disk(<< >>, << >>)]

\* a call is made: its outcome becomes the disk and the result; time passes
InstallerStep(call, out) ==
    /\ now < MaxClock
    /\ now' = now + 1
    /\ iprev' = [call |-> iop, ret |-> ires, pre |-> ipre]
    /\ ipre' = Disk(files, meta)
    /\ iop' = call
    /\ ires' = out.ret
    /\ files' = out.disk.files
    /\ meta' = out.disk.meta
    /\ UNCHANGED <<fetchVars, parseVars, configVars, cliVars, procVars>>

\* install(skill, conflict_resolution, fetcher), fetcher being None or passed
CallInstall(skill, conflict_resolution, fetcher) ==
    /\ InstallerStep(InstallerCall("install", skill, conflict_resolution, skill.name),
                     install(Disk(files, meta), skill, conflict_resolution, now))
    /\ fetchers' = IF ConstructsFetcher(Disk(files, meta), skill, conflict_resolution, fetcher)
                   THEN fetchers + 1 ELSE fetchers

CallRemove(skill_name) ==
    /\ InstallerStep(InstallerCall("remove", NoSkill, "none", skill_name),
                     remove(Disk(files, meta), skill_name))
    /\ UNCHANGED fetchers

\* a query: the disk stays, the answer is the result
CallNeedsUpdate(skill_name, new_checksum) ==
    /\ InstallerStep([InstallerCall("needs_update", NoSkill, "none", skill_name)
                          EXCEPT !.checksum = new_checksum],
                     Installed(Disk(files, meta),
                               IF needs_update(Disk(files, meta), skill_name, new_checksum)
                               THEN "true" ELSE "false"))
    /\ UNCHANGED fetchers
-----------------------------------------------------------------------------
(* models.py: SkillSource.from_string as a state machine                   *)

SourceChars == {"a", "b", "/"}
Branches == {<<"m", "a", "i", "n">>, <<"d">>}

\* from_string is called on the input
Parse ==
    /\ presult = NotParsed
    /\ presult' = from_string(pinput, pbranch)
    /\ UNCHANGED <<pinput, pbranch, fetchVars, configVars, installVars, fetchers, cliVars, procVars>>
-----------------------------------------------------------------------------
(* fetcher.py: SkillFetcher.fetch as a state machine                       *)

FetchNames == {<<"a">>, <<"a">> \o DotMd}
FetchSources ==
    {[owner |-> <<"o">>, repo |-> <<"r">>, branch |-> Main],
     [owner |-> <<"p">>, repo |-> <<"q">>, branch |-> <<"d">>]}

\* fetch is called: url is built, last_error = None, the loop is entered
FetchBegin(name, source, validate) ==
    /\ fpc = "idle"
    /\ fpc' = "loop"
    /\ fname' = name
    /\ fsource' = source
    /\ fvalidate' = validate
    /\ attempt' = 0
    /\ last_error' = NoError
    /\ UNCHANGED <<gets, sleeps, fresult, parseVars, configVars, installVars, fetchers,
                   cliVars, procVars>>

\* one iteration of the loop: the GET, the handling of its outcome, the sleep;
\* the last iteration falls out of the loop into the final raise
FetchAttempt(resp) ==
    /\ fpc = "loop"
    /\ attempt < MAX_RETRIES
    /\ gets' = Append(gets, resp)
    /\ LET out == OnResponse(resp, fvalidate, fname, fsource)
       IN  IF out.kind = "return"
           THEN /\ fresult' = Returned(out.skill)
                /\ fpc' = "done"
                /\ UNCHANGED <<attempt, last_error, sleeps>>
           ELSE IF out.kind = "raise"
           THEN /\ fresult' = Raised(out.error)
                /\ fpc' = "done"
                /\ UNCHANGED <<attempt, last_error, sleeps>>
           ELSE /\ last_error' = out.error
                /\ sleeps' = IF SleepsAfter(attempt)
                             THEN Append(sleeps, RetryDelay(attempt))
                             ELSE sleeps
                /\ attempt' = attempt + 1
                /\ IF attempt + 1 < MAX_RETRIES
                   THEN UNCHANGED <<fpc, fresult>>
                   ELSE /\ fpc' = "done"
                        /\ fresult' = Raised(AfterLoop(out.error))
    /\ UNCHANGED <<fname, fsource, fvalidate, parseVars, configVars, installVars, fetchers,
                   cliVars, procVars>>
-----------------------------------------------------------------------------
(* config.py: the lookups the commands make                                *)

\* ConfigManager.resolve_alias; a missing file gives the name back
resolve_alias(file, name) ==
    LET l == load(file)
    IN  IF l.ok /\ name \in DOMAIN l.config.aliases THEN l.config.aliases[name]
        ELSE name

\* ConfigManager.is_source_allowed: "true", "false" (also when the file is
\* missing), or the failure of load that it lets through
is_source_allowed(file, source) ==
    LET l == load(file)
    IN  IF l.ok THEN (IF source \in Range(l.config.allowed_sources) THEN "true" ELSE "false")
        ELSE IF l.error = "NotFound" THEN "false"
        ELSE l.error

-----------------------------------------------------------------------------
(* fetcher.py: SkillFetcher.fetch as a function of the server's answers    *)

\* the answer to the attempt of index a; the server repeats its last answer
Answer(run, a) == IF a + 1 <= Len(run) THEN run[a + 1] ELSE run[Len(run)]

\* the for loop of fetch from the attempt of index a on, and the raise after it
RECURSIVE FetchLoop(_, _, _, _, _, _)
FetchLoop(a, last, run, validate, name, source) ==
    IF a >= MAX_RETRIES THEN Raised(AfterLoop(last))
    ELSE LET out == OnResponse(Answer(run, a), validate, name, source)
         IN  IF out.kind = "return" THEN Returned(out.skill)
             ELSE IF out.kind = "raise" THEN Raised(out.error)
             ELSE FetchLoop(a + 1, out.error, run, validate, name, source)

\* SkillFetcher.fetch
fetch(name, source, validate, run) == FetchLoop(0, NoError, run, validate, name, source)

-----------------------------------------------------------------------------
(* cli.py: the commands                                                    *)

\* at most this many commands are run
MaxCommands == 5

\* str.replace(".md", "")
RECURSIVE WithoutDotMd(_)
WithoutDotMd(s) ==
    IF Len(s) < Len(DotMd) THEN s
    ELSE IF SubSeq(s, 1, Len(DotMd)) = DotMd
    THEN WithoutDotMd(SubSeq(s, Len(DotMd) + 1, Len(s)))
    ELSE <<s[1]>> \o WithoutDotMd(Tail(s))

\* the arguments the commands are given
CliInitArgs == {Some(<<"a", "/", "b">>)}
CliSources == {<<"c", "/", "d">>}
CliSkillNames == {<<"a">>, <<"a", ".", "m", "d", "x">>}
\* the files these names are installed as, and the files update installs for them
CliSkillFiles ==
    {filename(n) : n \in CliSkillNames}
        \cup {filename(WithoutDotMd(filename(n))) : n \in CliSkillNames}

NoPass ==
    [file |-> << >>, got |-> NoResult, how |-> "none", pre |-> Disk(<< >>, << >>),
     updated |-> 0, skipped |-> 0]

\* what the server answers to the attempts of one fetch: a skill, a skill
\* whose front-matter block is malformed, 404, 503 each time, or a skill
\* after a 503
ServerRuns ==
    {<<HttpResponse(200, b)>> :
        b \in InstallContents
                \cup {[head |-> <<"x">>, pad |-> 0, padc |-> "x", fm |-> "malformed"]}}
        \cup {<<HttpResponse(404, NoBody)>>, <<HttpResponse(503, NoBody)>>}
        \cup {<<HttpResponse(503, NoBody), HttpResponse(200, b)>> : b \in InstallContents}

\* one fetch on the wire
Fetched(file, source) ==
    [source |-> full_name(source),
     allowed |-> is_source_allowed(file, full_name(source)) = "true"]

CliIdle ==
    /\ fetchers = 0
    /\ cmd = "none"
    /\ exit = "idle"
    /\ selected = {}
    /\ todo = {}
    /\ pass = NoPass
    /\ updated_count = 0
    /\ skipped_count = 0
    /\ wire = {}

\* a command is started: none is running, and time passes
Start(command) ==
    /\ exit # "running"
    /\ now < MaxCommands
    /\ now' = now + 1
    /\ cmd' = command
    /\ UNCHANGED <<fetchVars, parseVars, cop, cres, cpre, iop, ires, ipre, iprev, procVars>>

\* init, source add, source remove: the ConfigManager call; any exception is Exit(1)
ConfigCommand(command, out) ==
    /\ Start(command)
    /\ cfile' = out.file
    /\ exit' = IF out.res.ok THEN "ok" ELSE "failed"
    /\ wire' = {}
    /\ UNCHANGED <<files, meta, fetchers, selected, todo, pass, updated_count, skipped_count>>

CliInit(default_source) ==
    ConfigCommand("init", init(cfile, default_source))

CliSourceAdd(source) ==
    ConfigCommand("source add", add_source(cfile, source))

CliSourceRemove(source) ==
    ConfigCommand("source remove", remove_source(cfile, source))

\* remove: Exit(1) when remove returns False
CliRemove(skill_name) ==
    LET out == remove(Disk(files, meta), skill_name)
    IN  /\ Start("remove")
        /\ files' = out.disk.files
        /\ meta' = out.disk.meta
        /\ exit' = IF out.ret = "true" THEN "ok" ELSE "failed"
        /\ wire' = {}
        /\ UNCHANGED <<cfile, fetchers, selected, todo, pass, updated_count, skipped_count>>

\* what the fetch command does to the disk and to the wire, and how it ends:
\* the configuration is loaded, the alias resolved, the source taken from the
\* argument or the default, looked up in the allow-list and parsed; then the
\* skill is fetched and installed, with a fetcher the with statement closes
FetchCommand(file, disk, skill_name, source, branch, overwrite, run, time) ==
    LET l == load(file)
        actual_skill_name == resolve_alias(file, skill_name)
        src == IF source.some THEN source.v ELSE l.config.default_source
        skill_source == from_string(src, branch)
        got == fetch(actual_skill_name, skill_source.value, TRUE, run)
        out == install(disk, got.skill, IF overwrite THEN "overwrite" ELSE "prompt", time)
        Exit1 == [disk |-> disk, wire |-> {}, status |-> "failed"]
    IN  IF ~l.ok THEN Exit1
        ELSE IF is_source_allowed(file, src) # "true" THEN Exit1
        ELSE IF ~skill_source.ok THEN Exit1
        ELSE IF got.kind = "error"
        THEN [Exit1 EXCEPT !.wire = {Fetched(file, skill_source.value)}]
        ELSE [disk |-> out.disk, wire |-> {Fetched(file, skill_source.value)},
              status |-> IF out.ret = "AlreadyExists" THEN "failed" ELSE "ok"]

CliFetch(skill_name, source, overwrite, run) ==
    LET out == FetchCommand(cfile, Disk(files, meta), skill_name, source, Main, overwrite,
                            run, now)
    IN  /\ Start("fetch")
        /\ files' = out.disk.files
        /\ meta' = out.disk.meta
        /\ wire' = out.wire
        /\ exit' = out.status
        /\ UNCHANGED <<cfile, fetchers, selected, todo, pass, updated_count, skipped_count>>

\* update, up to the loop: the skills to update are all the keys of the index
\* or the one skill named, which has to be installed; then the fetcher is
\* constructed and the loop entered
CliUpdate(skill_name) ==
    LET skill_file == filename(skill_name.v)
        skills_to_update == IF skill_name.some THEN {skill_file} ELSE DOMAIN meta
    IN  /\ Start("update")
        /\ wire' = {}
        /\ updated_count' = 0
        /\ skipped_count' = 0
        /\ IF skill_name.some /\ ~is_installed(Disk(files, meta), skill_file)
           THEN exit' = "failed" /\ todo' = {} /\ selected' = {} /\ UNCHANGED fetchers
           ELSE IF skills_to_update = {}
           THEN exit' = "ok" /\ todo' = {} /\ selected' = {} /\ UNCHANGED fetchers
           ELSE /\ exit' = "running"
                /\ todo' = skills_to_update
                /\ selected' = skills_to_update
                /\ fetchers' = fetchers + 1
        /\ pass' = NoPass
        /\ UNCHANGED <<cfile, files, meta>>

\* one pass of the loop for skill_file: "skipped", "updated", or "raised" when
\* an exception other than FetchError leaves the loop
UpdateOne(disk, skill_file, run, time) ==
    LET info == get_skill_info(disk, skill_file)
        skill_source == from_string(info.record.source, info.record.branch)
        got == fetch(WithoutDotMd(skill_file), skill_source.value, TRUE, run)
        new_checksum == compute_checksum(got.skill.content)
        Pass(d, fetched, g, how) == [disk |-> d, fetched |-> fetched, got |-> g, how |-> how]
    IN  IF ~info.found THEN Pass(disk, FALSE, NoResult, "skipped")
        ELSE IF ~skill_source.ok THEN Pass(disk, FALSE, NoResult, "raised")
        ELSE IF got.kind = "error"
        THEN Pass(disk, TRUE, got, IF IsFetchError(got.error) THEN "skipped" ELSE "raised")
        ELSE IF ~needs_update(disk, skill_file, new_checksum)
        THEN Pass(disk, TRUE, got, "skipped")
        ELSE Pass(install(disk, got.skill, "overwrite", time).disk, TRUE, got, "updated")

\* the loop comes to skill_file; after the last skill, or when an exception
\* leaves the loop, the with statement closes the fetcher and the command ends
CliUpdateNext(skill_file, run) ==
    LET out == UpdateOne(Disk(files, meta), skill_file, run, now)
        info == get_skill_info(Disk(files, meta), skill_file)
    IN  /\ exit = "running"
        /\ skill_file \in todo
        /\ files' = out.disk.files
        /\ meta' = out.disk.meta
        /\ wire' = IF out.fetched
                   THEN wire \cup {[source |-> info.record.source,
                                    allowed |-> is_source_allowed(cfile, info.record.source)
                                                    = "true"]}
                   ELSE wire
        /\ updated_count' = IF out.how = "updated" THEN updated_count + 1 ELSE updated_count
        /\ skipped_count' = IF out.how = "skipped" THEN skipped_count + 1 ELSE skipped_count
        /\ todo' = todo \ {skill_file}
        /\ pass' = [file |-> skill_file, got |-> out.got, how |-> out.how,
                    pre |-> Disk(files, meta), updated |-> updated_count,
                    skipped |-> skipped_count]
        /\ IF out.how = "raised" THEN exit' = "failed" /\ fetchers' = fetchers - 1
           ELSE IF todo = {skill_file} THEN exit' = "ok" /\ fetchers' = fetchers - 1
           ELSE UNCHANGED <<exit, fetchers>>
        /\ UNCHANGED <<fetchVars, parseVars, configVars, now, iop, ires, ipre, iprev, cmd,
                       selected, procVars>>
-----------------------------------------------------------------------------
(* config.py, installer.py: add_source, install and remove run by          *)
(* processes, one statement at a time                                      *)

Procs == {1, 2}

\* a process: the call it runs ("none", "add_source", "install", "remove"),
\* where it is ("idle", "written", "loaded", "done", "killed"), the arguments,
\* the config and the metadata object it has loaded, the index as it was when
\* the call began, and whether the call has saved
NoProcess ==
    [op |-> "none", pc |-> "idle", source |-> << >>, skill |-> NoSkill, policy |-> "none",
     config |-> NoConfig, index |-> << >>, before |-> << >>, wrote |-> FALSE]

\* no call is running in the process
AtRest(p) == proc[p].pc \in {"idle", "done", "killed"}

ProcIdle ==
    /\ proc = [p \in Procs |-> NoProcess]
    /\ clast = 0
    /\ mlast = 0
    /\ interrupted = FALSE

\* mutant: the source is not appended
AddedSource_Nothing(config, source) == config

\* `config.allowed_sources.append(source)`
AddedSource(config, source) == [config EXCEPT !.allowed_sources = Append(@, source)]

\* mutant: a record that exists keeps its checksum
UpsertRecord_StaleChecksum(index, skill, time) ==
    Put(index, filename(skill.name),
        [source |-> skill.source, fetched_at |-> time, branch |-> skill.branch,
         checksum |-> IF filename(skill.name) \in DOMAIN index
                      THEN index[filename(skill.name)].checksum
                      ELSE compute_checksum(skill.content)])

\* `metadata.skills[skill.filename] = SkillMetadata(...)`
UpsertRecord(index, skill, time) ==
    Put(index, filename(skill.name),
        [source |-> skill.source, fetched_at |-> time, branch |-> skill.branch,
         checksum |-> compute_checksum(skill.content)])

\* a call begins in process p: time passes
Begin(p) ==
    /\ AtRest(p)
    /\ now < MaxClock
    /\ now' = now + 1
    /\ UNCHANGED <<fetchVars, parseVars, cop, cres, cpre, iop, ires, ipre, iprev, fetchers,
                   cliVars>>

\* a call goes on in process p
Goes(p, op, pc) ==
    /\ proc[p].op = op
    /\ proc[p].pc = pc
    /\ UNCHANGED <<fetchVars, parseVars, cop, cres, cpre, iop, ires, ipre, iprev, fetchers,
                   cliVars, now>>

\* add_source, `config = self.load()`: the file is read; a failure ends the call
AddSourceLoad(p, source) ==
    LET l == load(cfile)
    IN  /\ Begin(p)
        /\ proc' = [proc EXCEPT ![p] =
                        [NoProcess EXCEPT !.op = "add_source", !.source = source,
                                          !.pc = IF l.ok THEN "loaded" ELSE "done",
                                          !.config = l.config]]
        /\ UNCHANGED <<cfile, files, meta, clast, mlast, interrupted>>

\* add_source, the if statement: the source is appended to the loaded config
\* and the config is saved, unless the loaded config holds the source
AddSourceSave(p) ==
    /\ Goes(p, "add_source", "loaded")
    /\ IF proc[p].source \notin Range(proc[p].config.allowed_sources)
       THEN /\ cfile' = save(AddedSource(proc[p].config, proc[p].source))
            /\ clast' = p
            /\ proc' = [proc EXCEPT ![p].pc = "done", ![p].wrote = TRUE]
       ELSE /\ proc' = [proc EXCEPT ![p].pc = "done"]
            /\ UNCHANGED <<cfile, clast>>
    /\ UNCHANGED <<files, meta, mlast, interrupted>>

\* install, up to the write of the skill file: SKIP and PROMPT end the call
\* when the file exists
InstallWriteFile(p, skill, conflict_resolution) ==
    LET exists == filename(skill.name) \in DOMAIN files
        ends == exists /\ conflict_resolution \in {"skip", "prompt"}
    IN  /\ Begin(p)
        /\ proc' = [proc EXCEPT ![p] =
                        [NoProcess EXCEPT !.op = "install", !.skill = skill,
                                          !.policy = conflict_resolution,
                                          !.pc = IF ends THEN "done" ELSE "written",
                                          !.before = meta]]
        /\ files' = IF ends THEN files ELSE Put(files, filename(skill.name), skill.content)
        /\ UNCHANGED <<cfile, meta, clast, mlast, interrupted>>

\* install, `metadata = self._load_metadata()`
InstallLoadIndex(p) ==
    /\ Goes(p, "install", "written")
    /\ proc' = [proc EXCEPT ![p].pc = "loaded", ![p].index = meta]
    /\ UNCHANGED <<cfile, files, meta, clast, mlast, interrupted>>

\* install, the record is put into the loaded index and the index is saved
InstallSaveIndex(p) ==
    /\ Goes(p, "install", "loaded")
    /\ meta' = UpsertRecord(proc[p].index, proc[p].skill, now)
    /\ mlast' = p
    /\ proc' = [proc EXCEPT ![p].pc = "done", ![p].wrote = TRUE]
    /\ UNCHANGED <<cfile, files, clast, interrupted>>

\* the process is killed after the write of the skill file and before the
\* save of the index
Interrupt(p) ==
    /\ proc[p].op = "install"
    /\ proc[p].pc \in {"written", "loaded"}
    /\ proc' = [proc EXCEPT ![p].pc = "killed"]
    /\ interrupted' = TRUE
    /\ UNCHANGED <<fetchVars, parseVars, configVars, installVars, fetchers, cliVars, clast,
                   mlast>>

\* remove, from its first statement to its last
RemoveWhole(p, skill_name) ==
    LET out == remove(Disk(files, meta), skill_name)
    IN  /\ Begin(p)
        /\ proc' = [proc EXCEPT ![p] = [NoProcess EXCEPT !.op = "remove", !.pc = "done"]]
        /\ files' = out.disk.files
        /\ meta' = out.disk.meta
        /\ UNCHANGED <<cfile, clast, mlast, interrupted>>

\* the arguments the processes give
RaceSources == {<<"c", "/", "d">>, <<"e", "/", "f">>}
RaceSkills == {skill \in Skills : skill.source = <<"a", "/", "b">>}

\* the configuration file that init("a/b") leaves
InitialConfig ==
    save([default_source |-> <<"a", "/", "b">>, allowed_sources |-> <<<<"a", "/", "b">>>>,
          aliases |-> << >>])
-----------------------------------------------------------------------------
(* Specifications: one per component, the others staying idle              *)

ConfigInit == FetchIdle /\ ParseIdle /\ ConfigIdle /\ InstallIdle /\ CliIdle /\ ProcIdle

ConfigNext ==
    \/ \E default_source \in InitArgs : CallInit(default_source)
    \/ CallLoad
    \/ \E source \in SourceArgs : CallAddSource(source)
    \/ \E source \in SourceArgs \cup {DEFAULT_SOURCE} : CallRemoveSource(source)
    \/ \E alias \in AliasArgs, skill_name \in SkillNameArgs : CallAddAlias(alias, skill_name)

ConfigSpec == ConfigInit /\ [][ConfigNext]_vars

ParseInit ==
    /\ pinput \in StringsUpTo(SourceChars, MaxLen)
    /\ pbranch \in Branches
    /\ presult = NotParsed
    /\ FetchIdle
    /\ ConfigIdle
    /\ InstallIdle
    /\ CliIdle
    /\ ProcIdle

ParseNext == Parse

ParseSpec == ParseInit /\ [][ParseNext]_vars

FetchInit == FetchIdle /\ ParseIdle /\ ConfigIdle /\ InstallIdle /\ CliIdle /\ ProcIdle

FetchNext ==
    \/ \E name \in FetchNames, source \in FetchSources, validate \in BOOLEAN :
           FetchBegin(name, source, validate)
    \/ \E resp \in Responses : FetchAttempt(resp)

FetchSpec == FetchInit /\ [][FetchNext]_vars

\* the loop is sequential code and every GET ends (30 s timeout), so an
\* iteration that can run does run
FairFetchSpec == FetchSpec /\ WF_vars(\E resp \in Responses : FetchAttempt(resp))

InstallInit == FetchIdle /\ ParseIdle /\ ConfigIdle /\ InstallIdle /\ CliIdle /\ ProcIdle

InstallNext ==
    \/ \E skill \in Skills, conflict_resolution \in ConflictResolutions,
             fetcher \in FetcherArgs :
           CallInstall(skill, conflict_resolution, fetcher)
    \/ \E skill_name \in RemoveNames : CallRemove(skill_name)
    \/ \E skill_name \in QueryNames, new_checksum \in ChecksumArgs :
           CallNeedsUpdate(skill_name, new_checksum)

InstallSpec == InstallInit /\ [][InstallNext]_vars

CliInit0 == FetchIdle /\ ParseIdle /\ ConfigIdle /\ InstallIdle /\ CliIdle /\ ProcIdle

CliNext ==
    \/ \E default_source \in CliInitArgs : CliInit(default_source)
    \/ \E source \in CliSources : CliSourceAdd(source)
    \/ \E source \in CliSources \cup {s.v : s \in CliInitArgs} : CliSourceRemove(source)
    \/ \E skill_name \in CliSkillNames, source \in {None} \cup {Some(s) : s \in CliSources},
             overwrite \in BOOLEAN, run \in ServerRuns :
           CliFetch(skill_name, source, overwrite, run)
    \/ \E skill_name \in {None} \cup {Some(n) : n \in CliSkillNames} : CliUpdate(skill_name)
    \/ \E skill_file \in CliSkillFiles, run \in ServerRuns : CliUpdateNext(skill_file, run)
    \/ \E skill_name \in CliSkillNames : CliRemove(skill_name)

CliSpec == CliInit0 /\ [][CliNext]_vars

\* two processes on one project whose configuration init has written; each
\* runs one call, add_source or install, and their statements interleave
RaceInit ==
    /\ FetchIdle /\ ParseIdle /\ InstallIdle /\ CliIdle /\ ProcIdle
    /\ cfile = InitialConfig
    /\ cop = Call("none", FALSE, << >>, << >>)
    /\ cres = Fail("none")
    /\ cpre = NoFile

RaceNext ==
    \E p \in Procs :
        \/ \E source \in RaceSources : AddSourceLoad(p, source)
        \/ AddSourceSave(p)
        \/ \E skill \in RaceSkills, conflict_resolution \in ConflictResolutions :
               InstallWriteFile(p, skill, conflict_resolution)
        \/ InstallLoadIndex(p)
        \/ InstallSaveIndex(p)

RaceSpec == RaceInit /\ [][RaceNext]_vars

\* one process that runs install and remove calls one after another and may
\* be killed inside an install
SeqInit == FetchIdle /\ ParseIdle /\ ConfigIdle /\ InstallIdle /\ CliIdle /\ ProcIdle

SeqNext ==
    \/ \E skill \in RaceSkills, conflict_resolution \in ConflictResolutions :
           InstallWriteFile(1, skill, conflict_resolution)
    \/ InstallLoadIndex(1)
    \/ InstallSaveIndex(1)
    \/ Interrupt(1)
    \/ \E skill_name \in RemoveNames : RemoveWhole(1, skill_name)

SeqSpec == SeqInit /\ [][SeqNext]_vars

-----------------------------------------------------------------------------
(* Claims about fetch                                                      *)

\* an attempt that ended in an HTTP status >= 500 or a transport-level error
EndedRetryable(resp) == resp.kind = "transport" \/ resp.status >= 500

\* an attempt that got a status that is neither 200 nor >= 500
EndedNonRetryable(resp) == resp.kind = "http" /\ resp.status # 200 /\ resp.status < 500

IsOk(resp) == resp.kind = "http" /\ resp.status = 200

\* fetch failed at attempt i with an error of this kind: no GET and no sleep
\* followed it
FailedAt(i, kind) ==
    /\ i = Len(gets)
    /\ fpc = "done"
    /\ fresult.kind = "error"
    /\ fresult.error.kind = kind
    /\ Len(sleeps) = i - 1

\* C1: fetch issues at most 4 GETs, issues a GET after the first only when the
\* attempt before it ended in a status >= 500 or a transport error, and always
\* terminates, with a returned skill or an error.
C1_FetchBoundedAndTerminates ==
    /\ [](/\ Len(gets) <= 4
          /\ \A i \in 2..Len(gets) : EndedRetryable(gets[i - 1]))
    /\ [](fpc = "done" => fresult.kind \in {"skill", "error"})
    /\ (fpc = "loop" ~> fpc = "done")

\* all four attempts were used and fetch has ended
C1_Witness ==
    /\ fpc = "done"
    /\ Len(gets) = 4
    /\ fresult.kind = "error"

\* C2: an attempt that receives 404, 403 or another status that is neither 200
\* nor >= 500 makes fetch fail at that attempt with NotFound, Forbidden or
\* UnexpectedStatus, with no further GET and no backoff sleep; a 404 on the
\* first attempt gives exactly one GET.
C2_NonRetryableFailsAtOnce ==
    \A i \in 1..Len(gets) :
        EndedNonRetryable(gets[i]) =>
            FailedAt(i, IF gets[i].status = 404 THEN "NotFound"
                        ELSE IF gets[i].status = 403 THEN "Forbidden"
                        ELSE "UnexpectedStatus")

\* a 499 on the third attempt, after two retried failures
C2_Witness ==
    /\ Len(gets) = 3
    /\ gets[3].kind = "http"
    /\ gets[3].status = 499
    /\ fresult.error.kind = "UnexpectedStatus"

\* a body that passes validation and whose front-matter, if any, is a mapping
\* of strings
ValidBody(b) ==
    /\ ContentLen(b) <= MAX_FILE_SIZE
    /\ ~ContentBlank(b)
    /\ b.fm \in {"none", "mapping"}

\* C3: when the first k attempts (k in 0..3) end in retryable failures and
\* attempt k+1 returns 200 with a valid body, fetch returns a skill whose content
\* is that body and whose source and branch are those of the requested source.
C3_RetryThenSucceed ==
    \A k \in 0..3 :
        (/\ Len(gets) >= k + 1
         /\ \A i \in 1..k : EndedRetryable(gets[i])
         /\ IsOk(gets[k + 1])
         /\ ValidBody(gets[k + 1].body))
        => /\ Len(gets) = k + 1
           /\ fpc = "done"
           /\ fresult.kind = "skill"
           /\ fresult.skill.content = gets[k + 1].body
           /\ fresult.skill.source = fsource.owner \o <<"/">> \o fsource.repo
           /\ fresult.skill.branch = fsource.branch

\* three 503 responses, then a 200 on the fourth attempt
C3_Witness ==
    /\ Len(gets) = 4
    /\ \A i \in 1..3 : gets[i].kind = "http" /\ gets[i].status = 503
    /\ IsOk(gets[4])
    /\ fresult.kind = "skill"
    /\ fsource.branch # Main

\* C4: with validate=true, a 200 response whose body is within the size limit
\* and has a non-blank line gives a FetchedSkill even when its front-matter
\* block fails to parse; fetch never fails with anything but a FetchError.
C4_FrontmatterFailureTolerated ==
    /\ (/\ fpc = "done"
        /\ fvalidate
        /\ Len(gets) >= 1
        /\ IsOk(gets[Len(gets)])
        /\ ContentLen(gets[Len(gets)].body) <= MAX_FILE_SIZE
        /\ AnyNonBlankLine(gets[Len(gets)].body))
       => fresult.kind = "skill"
    /\ fresult.kind = "error" => IsFetchError(fresult.error)

\* C5 as stated: with validate=true a blank body fails with EmptyContent and a
\* body longer than MAX_FILE_SIZE fails with TooLarge (one of length
\* MAX_FILE_SIZE does not), at that attempt, with no further GET and no sleep.
C5_ValidationErrorsAsStated ==
    \A i \in 1..Len(gets) :
        (fvalidate /\ IsOk(gets[i])) =>
            /\ ContentBlank(gets[i].body) => FailedAt(i, "EmptyContent")
            /\ ContentLen(gets[i].body) > 1048576 => FailedAt(i, "TooLarge")
            /\ ContentLen(gets[i].body) = 1048576 => fresult.error.kind # "TooLarge"

\* C5, amended: the size check comes first, so a blank body fails with
\* EmptyContent only when it is no longer than MAX_FILE_SIZE; any body longer
\* than MAX_FILE_SIZE, blank or not, fails with TooLarge.
C5_ValidationErrors ==
    \A i \in 1..Len(gets) :
        (fvalidate /\ IsOk(gets[i])) =>
            /\ (ContentBlank(gets[i].body) /\ ContentLen(gets[i].body) <= 1048576)
                   => FailedAt(i, "EmptyContent")
            /\ ContentLen(gets[i].body) > 1048576 => FailedAt(i, "TooLarge")
            /\ ContentLen(gets[i].body) <= 1048576 => fresult.error.kind # "TooLarge"

\* a whitespace-only body of MAX_FILE_SIZE + 1 characters, rejected as too large
C5_Witness ==
    /\ fvalidate
    /\ Len(gets) = 2
    /\ IsOk(gets[2])
    /\ ContentBlank(gets[2].body)
    /\ ContentLen(gets[2].body) = 1048576 + 1
    /\ FailedAt(2, "TooLarge")

-----------------------------------------------------------------------------
(* Claims about from_string and the configuration store                    *)

\* C6: parse succeeds exactly when splitting the input on "/" yields two
\* non-empty segments, and then returns them as owner and repo, so that
\* full_name gives the input back; every other input fails with FormatError.
C6_ParseExactlyTwoNonEmptySegments ==
    presult # NotParsed =>
        LET parts == Split(pinput, "/")
            wellFormed == Len(parts) = 2 /\ parts[1] # << >> /\ parts[2] # << >>
        IN  /\ presult.ok <=> wellFormed
            /\ presult.ok => /\ presult.value.owner = parts[1]
                             /\ presult.value.repo = parts[2]
                             /\ full_name(presult.value) = pinput
            /\ ~wellFormed => presult.error = "FormatError"

\* C7: after any sequence of init, add_source, remove_source and add_alias
\* calls, every string of the persisted default_source and allowed_sources has
\* the owner/repo shape, so no load fails with InvalidFormat.
C7_PersistedSourcesWellFormed ==
    /\ cfile.exists =>
           /\ ValidSourceFormat(cfile.data.default_source)
           /\ \A i \in 1..Len(cfile.data.allowed_sources) :
                  ValidSourceFormat(cfile.data.allowed_sources[i])
    /\ cop.op = "load" => cres.error # "InvalidFormat"

\* C8: remove_source of the current default_source fails with
\* CannotRemoveDefault, whatever allowed_sources holds, and leaves the
\* persisted configuration as it was.
C8_RemoveDefaultRefused ==
    (/\ cop.op = "remove_source"
     /\ cpre.exists
     /\ cop.arg = cpre.data.default_source)
    => /\ cres.error = "CannotRemoveDefault"
       /\ cfile = cpre

\* C9: init fails with AlreadyExists when the file exists and leaves it as it
\* was; load fails with NotFound when no file has been created; a successful
\* init persists the given (or else the built-in) default source as
\* default_source and as the only allowed source, with no aliases.
C9_InitAndLoad ==
    /\ (cop.op = "init" /\ cpre.exists) =>
           /\ ~cres.ok /\ cres.error = "AlreadyExists"
           /\ cfile = cpre
    /\ (cop.op = "load" /\ ~cpre.exists) =>
           /\ ~cres.ok /\ cres.error = "NotFound"
           /\ ~cfile.exists
    /\ (cop.op = "init" /\ cres.ok) =>
           LET source == IF cop.opt /\ cop.arg # << >> THEN cop.arg
                         ELSE <<"m", "o", "j", "z", "i", "s", "/", "m", "a", "r", "i",
                                "m", "o", "-", "t", "e", "m", "p", "l", "a", "t", "e">>
           IN  /\ ~cpre.exists
               /\ cfile.exists
               /\ cfile.data.default_source = source
               /\ cfile.data.allowed_sources = <<source>>
               /\ DOMAIN cfile.data.aliases = {}

\* init is called on a file that an earlier init created and later calls changed
C9_Witness ==
    /\ cop.op = "init"
    /\ cpre.exists
    /\ Len(cpre.data.allowed_sources) > 1
    /\ cres.error = "AlreadyExists"

-----------------------------------------------------------------------------
(* Claims about the installer                                              *)

\* the last two calls installed the same skill with the Skip policy, and its
\* file was not there before the first of them
SkipTwice ==
    /\ iop.op = "install"
    /\ iop.policy = "skip"
    /\ iprev.call = iop
    /\ filename(iop.skill.name) \notin DOMAIN iprev.pre.files

-----------------------------------------------------------------------------
(* C11, C12: install under the Prompt and the Overwrite policy             *)

\* C11: install with the Prompt policy fails with AlreadyExists when the
\* target filename exists, and then changes neither the files nor the metadata
\* index; when the target does not exist it installs the skill and returns true.
C11_PromptRefusesExisting ==
    (iop.op = "install" /\ iop.policy = "prompt") =>
        LET f == filename(iop.skill.name)
        IN  IF f \in DOMAIN ipre.files
            THEN /\ ires = "AlreadyExists"
                 /\ files = ipre.files
                 /\ meta = ipre.meta
            ELSE /\ ires = "true"
                 /\ f \in DOMAIN files /\ files[f] = iop.skill.content
                 /\ f \in DOMAIN meta
                 /\ meta[f].source = iop.skill.source
                 /\ meta[f].checksum = <<"sha256", iop.skill.content>>

\* a Prompt install of other content has been refused over an installed skill
C11_Witness ==
    /\ iop.op = "install"
    /\ iop.policy = "prompt"
    /\ ires = "AlreadyExists"
    /\ filename(iop.skill.name) \in DOMAIN files
    /\ files[filename(iop.skill.name)] # iop.skill.content

\* an Overwrite install of content other than the installed file's
OverwriteOther ==
    /\ iop.op = "install"
    /\ iop.policy = "overwrite"
    /\ filename(iop.skill.name) \in DOMAIN ipre.files
    /\ ipre.files[filename(iop.skill.name)] # iop.skill.content

\* C12: install with the Overwrite policy on an installed filename with other
\* content returns true, replaces the file content and replaces the stored
\* checksum with the checksum of the new content; the index holds one record
\* for the filename afterwards and gains no other.
C12_OverwriteReplaces ==
    OverwriteOther =>
        LET f == filename(iop.skill.name)
        IN  /\ ires = "true"
            /\ files[f] = iop.skill.content
            /\ DOMAIN files = DOMAIN ipre.files
            /\ f \in DOMAIN meta
            /\ meta[f].checksum = <<"sha256", iop.skill.content>>
            /\ meta[f].checksum # ipre.meta[f].checksum
            /\ DOMAIN meta = DOMAIN ipre.meta

\* an Overwrite install has replaced a skill, beside another installed skill
C12_Witness ==
    /\ OverwriteOther
    /\ ires = "true"
    /\ Cardinality(DOMAIN meta) = 2

-----------------------------------------------------------------------------
(* C13: needs_update                                                       *)

\* needs_update was asked about the skill the call before it installed
AskedAfterInstall ==
    /\ iop.op = "needs_update"
    /\ iprev.call.op = "install"
    /\ iprev.ret = "true"
    /\ filename(iprev.call.skill.name) = filename(iop.name)

\* C13: needs_update(name, c) is false when the index holds no record for the
\* normalized filename, and otherwise true exactly when c differs from the
\* recorded checksum; asked right after an install of the skill it is false for
\* the checksum of the installed content and true for any other. It writes
\* nothing.
C13_NeedsUpdate ==
    iop.op = "needs_update" =>
        LET f == filename(iop.name)
        IN  /\ files = ipre.files
            /\ meta = ipre.meta
            /\ ires \in {"true", "false"}
            /\ f \notin DOMAIN meta => ires = "false"
            /\ f \in DOMAIN meta => (ires = "true" <=> meta[f].checksum # iop.checksum)
            /\ AskedAfterInstall =>
                   (ires = "false" <=> iop.checksum = <<"sha256", iprev.call.skill.content>>)

\* right after an install, needs_update has answered true for another checksum
C13_Witness ==
    /\ AskedAfterInstall
    /\ ires = "true"
    /\ iop.checksum # <<"sha256", iprev.call.skill.content>>

-----------------------------------------------------------------------------
(* C14: remove                                                             *)

\* the same skill named the other way: with '.md' if without, without if with
OtherSpelling(name) ==
    IF EndsWith(name, DotMd) THEN SubSeq(name, 1, Len(name) - Len(DotMd))
    ELSE name \o DotMd

\* C14: remove(name) returns false and changes nothing when the normalized
\* '.md' file is absent; otherwise it returns true, after which
\* is_installed(name) is false and get_skill_info(name) is absent, and every
\* other skill's file and record are unchanged; the name with and the name
\* without '.md' behave identically.
C14_Remove ==
    iop.op = "remove" =>
        LET f == filename(iop.name)
        IN  /\ IF f \notin DOMAIN ipre.files
               THEN /\ ires = "false"
                    /\ files = ipre.files
                    /\ meta = ipre.meta
               ELSE /\ ires = "true"
                    /\ ~is_installed(Disk(files, meta), iop.name)
                    /\ ~get_skill_info(Disk(files, meta), iop.name).found
                    /\ DOMAIN files = DOMAIN ipre.files \ {f}
                    /\ DOMAIN meta = DOMAIN ipre.meta \ {f}
                    /\ \A g \in DOMAIN files : files[g] = ipre.files[g]
                    /\ \A g \in DOMAIN meta : meta[g] = ipre.meta[g]
            /\ remove(ipre, OtherSpelling(iop.name)) = Installed(Disk(files, meta), ires)
            /\ is_installed(Disk(files, meta), OtherSpelling(iop.name))
                   = is_installed(Disk(files, meta), iop.name)
            /\ get_skill_info(Disk(files, meta), OtherSpelling(iop.name))
                   = get_skill_info(Disk(files, meta), iop.name)

\* a skill named without '.md' has been removed, another skill staying
C14_Witness ==
    /\ iop.op = "remove"
    /\ ires = "true"
    /\ ~EndsWith(iop.name, DotMd)
    /\ filename(iop.name) \in DOMAIN ipre.meta
    /\ DOMAIN files # {}

-----------------------------------------------------------------------------
(* C19: what a successful install writes                                   *)

\* C19: a successful install creates '<name>.md', the suffix added only when
\* the name lacks it, holding skill.content verbatim, and upserts one metadata
\* record for that filename with the skill's source, its branch and the
\* checksum of its content; every other filename's file and record are
\* unchanged.
C19_InstallWrites ==
    (iop.op = "install" /\ ires = "true") =>
        LET f == IF EndsWith(iop.skill.name, DotMd) THEN iop.skill.name
                 ELSE iop.skill.name \o DotMd
        IN  /\ DOMAIN files = DOMAIN ipre.files \cup {f}
            /\ files[f] = iop.skill.content
            /\ DOMAIN meta = DOMAIN ipre.meta \cup {f}
            /\ meta[f].source = iop.skill.source
            /\ meta[f].branch = iop.skill.branch
            /\ meta[f].checksum = <<"sha256", iop.skill.content>>
            /\ meta[f].fetched_at + 1 = now
            /\ \A g \in DOMAIN ipre.files \ {f} : files[g] = ipre.files[g]
            /\ \A g \in DOMAIN ipre.meta \ {f} : meta[g] = ipre.meta[g]

\* a skill whose name carries '.md' has been installed beside another skill
C19_Witness ==
    /\ iop.op = "install"
    /\ ires = "true"
    /\ EndsWith(iop.skill.name, DotMd)
    /\ filename(iop.skill.name) = iop.skill.name
    /\ DOMAIN ipre.meta # {}
    /\ filename(iop.skill.name) \notin DOMAIN ipre.meta

-----------------------------------------------------------------------------
(* C20: the backoff schedule                                               *)

RECURSIVE SumSeq(_)
SumSeq(s) == IF s = << >> THEN 0 ELSE s[1] + SumSeq(Tail(s))

\* the attempts that ended in a retryable failure and were not the fourth
RetriedAttempts == {i \in 1..Len(gets) : EndedRetryable(gets[i]) /\ i < 4}

\* C20: fetch sleeps only after a retryable failed attempt that is not the 4th,
\* for 2 * 2^i seconds after the attempt of index i (i = 0, 1, 2): 2, 4, 8 in
\* that order; no sleep follows the final attempt, a success or a non-retryable
\* failure; the sleeps of one fetch add up to at most 14 seconds.
C20_BackoffSchedule ==
    /\ Len(sleeps) <= 3
    /\ \A i \in 1..Len(sleeps) : sleeps[i] = 2 * 2 ^ (i - 1)
    /\ sleeps \in {<< >>, <<2>>, <<2, 4>>, <<2, 4, 8>>}
    /\ Len(sleeps) = Cardinality(RetriedAttempts)
    /\ RetriedAttempts = 1..Len(sleeps)
    /\ fpc = "done" /\ ~EndedRetryable(gets[Len(gets)]) => Len(sleeps) = Len(gets) - 1
    /\ fpc = "done" /\ EndedRetryable(gets[Len(gets)]) => Len(gets) = 4 /\ Len(sleeps) = 3
    /\ SumSeq(sleeps) <= 14

\* four retryable failures: the three sleeps were taken, none after the fourth
C20_Witness ==
    /\ fpc = "done"
    /\ Len(gets) = 4
    /\ EndedRetryable(gets[4])
    /\ sleeps = <<2, 4, 8>>
    /\ SumSeq(sleeps) = 14

-----------------------------------------------------------------------------
(* C18: add_source and remove_source are idempotent                        *)

\* C18: after any sequence of add_source and remove_source calls following
\* init, allowed_sources holds no entry twice; add_source of a source that is
\* present and remove_source of a source that is absent both leave the
\* persisted configuration as it was and return it without error.
C18_IdempotentSources ==
    /\ cfile.exists =>
           \A i, j \in 1..Len(cfile.data.allowed_sources) :
               cfile.data.allowed_sources[i] = cfile.data.allowed_sources[j] => i = j
    /\ (/\ cop.op = "add_source"
        /\ cpre.exists
        /\ cop.arg \in Range(cpre.data.allowed_sources))
       => /\ cfile = cpre
          /\ cres = Ok(cpre.data)
    /\ (/\ cop.op = "remove_source"
        /\ cpre.exists
        /\ cop.arg \notin Range(cpre.data.allowed_sources))
       => /\ cfile = cpre
          /\ cres = Ok(cpre.data)

-----------------------------------------------------------------------------
(* C15, C16, C17: the commands                                             *)

\* C15: no command, fetch or update, fetches from a source that the allow-list
\* does not hold at that time, a source that remove_source took off the list
\* included.
C15_FetchesOnlyAllowedSources == \A get \in wire : get.allowed

\* C16: when update has ended, its loop has come to every skill it was to
\* update: a failure with one skill does not keep it from the remaining ones.
C16_UpdateComesToEverySkill ==
    (cmd = "update" /\ exit # "running") => todo = {}

\* C17: every SkillFetcher that was constructed is closed once the code that
\* constructed it has ended: the fetch command, the update command, and an
\* install that is given no fetcher and constructs its own.
C17_FetchersClosed == exit # "running" => fetchers = 0

-----------------------------------------------------------------------------
(* C21: the error of an exhausted fetch                                    *)

\* all four attempts ended in retryable failures
AllAttemptsFailed ==
    /\ fpc = "done"
    /\ Len(gets) = 4
    /\ \A i \in 1..4 : EndedRetryable(gets[i])

\* C21: when all 4 attempts of fetch end in retryable failures, fetch fails
\* with the error recorded for the 4th attempt, not with an earlier attempt's;
\* the generic error of exhaustion is raised only when no retryable error was
\* recorded.
C21_LastErrorRaised ==
    /\ AllAttemptsFailed =>
           /\ fresult.kind = "error"
           /\ fresult.error =
                  IF gets[4].kind = "transport"
                  THEN [kind |-> "NetworkError", status |-> 0, cause |-> gets[4].cause]
                  ELSE [kind |-> "ServerError", status |-> gets[4].status, cause |-> "none"]
           /\ fresult.error = last_error
    /\ (fresult.kind = "error" /\ fresult.error.kind = "Exhausted") =>
           /\ last_error.kind = "none"
           /\ \A i \in 1..Len(gets) : ~EndedRetryable(gets[i])

\* four failures, the fourth of another kind than the three before it
C21_Witness ==
    /\ AllAttemptsFailed
    /\ \A i \in 1..3 : gets[i].kind = "transport"
    /\ gets[4].kind = "http" /\ gets[4].status = 503
    /\ fresult.error.kind = "ServerError"
    /\ fresult.error.status = 503

-----------------------------------------------------------------------------
(* C25: the default source stays                                           *)

\* C25: after init and any sequence of add_source, remove_source and
\* add_alias calls, default_source is a member of allowed_sources and is what
\* init made it; add_source and remove_source leave aliases as they were, and
\* add_alias leaves default_source and allowed_sources as they were.
C25_DefaultSourceStays ==
    /\ cfile.exists =>
           cfile.data.default_source \in Range(cfile.data.allowed_sources)
    /\ cpre.exists =>
           /\ cfile.exists
           /\ cfile.data.default_source = cpre.data.default_source
    /\ (cpre.exists /\ cop.op \in {"add_source", "remove_source"}) =>
           cfile.data.aliases = cpre.data.aliases
    /\ (cpre.exists /\ cop.op = "add_alias") =>
           cfile.data.allowed_sources = cpre.data.allowed_sources

\* remove_source of the default source has been refused, the configuration
\* holding another source and an alias
C25_Witness ==
    /\ cop.op = "remove_source"
    /\ cpre.exists
    /\ cop.arg = cpre.data.default_source
    /\ cres.error = "CannotRemoveDefault"
    /\ Len(cfile.data.allowed_sources) >= 2
    /\ DOMAIN cfile.data.aliases # {}

-----------------------------------------------------------------------------
(* C23: what update does with a fetched skill                              *)

\* the loop of update has just fetched the skill of a recorded skill file
PassFetched ==
    /\ cmd = "update"
    /\ pass.how # "none"
    /\ pass.file \in DOMAIN pass.pre.meta
    /\ pass.got.kind = "skill"

\* C23: when update comes to a skill that has a metadata record and whose
\* fetch succeeds: if the checksum of the fetched content differs from the
\* recorded one, the file content and the recorded checksum are replaced by
\* the fetched ones, needs_update for that checksum is false afterwards, and
\* the skill is counted as updated; if the checksums are equal, the file and
\* its record, fetched_at included, stay as they were and the skill is counted
\* as skipped; when the command completes, updated + skipped is the number of
\* skills selected.
C23_UpdateByChecksum ==
    /\ PassFetched =>
           LET f == pass.file
               new_checksum == <<"sha256", pass.got.skill.content>>
           IN  IF new_checksum # pass.pre.meta[f].checksum
               THEN /\ f \in DOMAIN files
                    /\ files[f] = pass.got.skill.content
                    /\ f \in DOMAIN meta
                    /\ meta[f].checksum = new_checksum
                    /\ ~needs_update(Disk(files, meta), f, new_checksum)
                    /\ pass.how = "updated"
                    /\ updated_count = pass.updated + 1
                    /\ skipped_count = pass.skipped
               ELSE /\ files = pass.pre.files
                    /\ meta = pass.pre.meta
                    /\ pass.how = "skipped"
                    /\ updated_count = pass.updated
                    /\ skipped_count = pass.skipped + 1
    /\ (cmd = "update" /\ exit = "ok") =>
           updated_count + skipped_count = Cardinality(selected)

-----------------------------------------------------------------------------
(* C22: two processes on one project                                       *)

\* both processes ran add_source and both saved
BothAddedSources ==
    \A p \in Procs : proc[p].op = "add_source" /\ proc[p].pc = "done" /\ proc[p].wrote

\* C22: add_source and install read, modify and write without a lock: with
\* two processes at work, the configuration file is, as long as the last saver
\* has not begun another call, and so at the end, what the process that saved
\* last wrote, which is what that process had loaded plus its own source and
\* nothing else; likewise the metadata index is
\* the index the last saver had loaded plus its own record. A change that the
\* other process saved after that load is lost.
C22_LastWriteWins ==
    /\ clast = 0 => cfile = InitialConfig
    /\ (clast # 0 /\ proc[clast].op = "add_source" /\ proc[clast].wrote) =>
           /\ cfile.exists
           /\ cfile.data.allowed_sources =
                  Append(proc[clast].config.allowed_sources, proc[clast].source)
           /\ cfile.data.default_source = proc[clast].config.default_source
           /\ cfile.data.aliases = proc[clast].config.aliases
    /\ mlast = 0 => meta = << >>
    /\ (mlast # 0 /\ proc[mlast].op = "install" /\ proc[mlast].wrote) =>
           LET f == filename(proc[mlast].skill.name)
           IN  /\ DOMAIN meta = DOMAIN proc[mlast].index \cup {f}
               /\ meta[f].checksum = <<"sha256", proc[mlast].skill.content>>
               /\ meta[f].source = proc[mlast].skill.source
               /\ \A g \in DOMAIN meta \ {f} : meta[g] = proc[mlast].index[g]
    /\ (BothAddedSources /\ proc[1].source # proc[2].source) =>
           \A p \in Procs \ {clast} :
               proc[p].source \in Range(cfile.data.allowed_sources)
                   <=> proc[p].source \in Range(proc[clast].config.allowed_sources)

\* both processes have added their sources, two different ones, and the file
\* holds the source of the last saver only
C22_Witness ==
    /\ BothAddedSources
    /\ proc[1].source # proc[2].source
    /\ \A p \in Procs \ {clast} : proc[p].source \notin Range(cfile.data.allowed_sources)
    /\ Len(cfile.data.allowed_sources) = 2

-----------------------------------------------------------------------------
(* C24: the metadata index and the skill files                             *)

\* the file that the install in process 1 writes
Installing == filename(proc[1].skill.name)

\* C24: from an empty skills directory, after any sequence of install calls
\* (any conflict policy) and remove calls that all ran to their end, the index
\* names exactly the skill files and each record's checksum is the checksum
\* of the file's content. install writes the file before the index: while it
\* runs, and when it is killed between the two writes, its file is written
\* and the index is as it was before the call, so there is never a record
\* without a file.
C24_IndexMatchesFiles ==
    /\ (AtRest(1) /\ ~interrupted) =>
           /\ DOMAIN meta = DOMAIN files
           /\ \A f \in DOMAIN meta : meta[f].checksum = <<"sha256", files[f]>>
    /\ DOMAIN meta \subseteq DOMAIN files
    /\ proc[1].pc \in {"written", "loaded", "killed"} =>
           /\ Installing \in DOMAIN files
           /\ files[Installing] = proc[1].skill.content
           /\ meta = proc[1].before

\* an install was killed after it wrote a file that has no record, or a
\* record of other content, while an earlier install's file has its record
C24_Witness ==
    /\ proc[1].pc = "killed"
    /\ Installing \in DOMAIN files
    /\ Installing \in DOMAIN meta => meta[Installing].checksum # <<"sha256", files[Installing]>>
    /\ \E g \in DOMAIN meta : meta[g].checksum = <<"sha256", files[g]>>

=============================================================================
